---- MODULE Spec2Model ----
(***************************************************************************)
(* Model of main.py: the feature-displacement-to-speed pipeline            *)
(* (calculate_matches, find_matching_coordinates, calculate_mean_distance, *)
(* calculate_speed_in_kmps) and the five-minute sampling loop of main().   *)
(*                                                                         *)
(* Numbers.  Python floats are modelled as exact rationals <<n, d>> in     *)
(* lowest terms with d > 0; the rounding error of IEEE double arithmetic   *)
(* is outside the model.  Pixel coordinates are integers taken from a grid *)
(* on which every Euclidean distance is an integer, so math.hypot is       *)
(* exact.  Time is counted in whole seconds since start_time.              *)
(*                                                                         *)
(* Exceptions.  A call result is a record [kind, value]: kind "return"     *)
(* carries the returned value, kind "raise" the name of the exception.     *)
(***************************************************************************)
EXTENDS Integers, Sequences, FiniteSets, TLC

VARIABLES
    pc,             \* position of main(): "start", "check", "capture1", ...
    clock,          \* wall clock, seconds since start_time (datetime.now())
    now_time,       \* main's now_time, seconds since start_time
    i,              \* main's image counter
    speeds,         \* main's list of measured speeds
    average_speed,  \* main's average_speed once computed
    results_file,   \* results.txt: [exists, run, text]
    requested,      \* history: filenames passed to take_photo, in order
    captured,       \* history: filenames whose take_photo returned
    failed,         \* history: requested filenames whose capture has only failed
    measured,       \* history: the speeds computed by the cycles that succeeded
    cycle,          \* history: what the current cycle did
    writes,         \* history: number of times results.txt was opened for writing
    args,           \* direct call of a pipeline function: its arguments
    ret             \* direct call of a pipeline function: its result

vars == <<pc, clock, now_time, i, speeds, average_speed,
          results_file, requested, captured, failed, measured, cycle, writes,
          args, ret>>

mainVars == <<pc, clock, now_time, i, speeds, average_speed,
              results_file, requested, captured, failed, measured, cycle, writes>>

-----------------------------------------------------------------------------
(* Bounds of the model *)

\* take_photo succeeds only while the image counter is at most MaxImages
MaxImages == 4
\* longest coordinate sequence given to calculate_mean_distance
MaxPairs == 2
\* longest keypoint sequence given to find_matching_coordinates
MaxKeypoints == 2
\* longest match list given to find_matching_coordinates
MaxMatches == 2
\* most descriptors in one descriptor set given to calculate_matches
MaxDescriptors == 2
\* largest elapsed time given to calculate_speed_in_kmps
MaxElapsed == 10

(* Program constants *)

\* timedelta(minutes=5)
RunMinutes == 5
\* sleep(9) between the two captures
InterCapturePause == 9
\* sleep(1) in the finally clause
PacingDelay == 1
\* round(average_speed, 5)
RoundDigits == 5
\* the divisor 100000.0 of calculate_speed_in_kmps
CmPerKm == 100000
\* start_time, the origin of the model's clock
start_time == 0

RunSeconds == RunMinutes * 60

-----------------------------------------------------------------------------
(* Exact rational arithmetic standing for Python float arithmetic.  The   *)
(* operations are functions, so that an argument is evaluated once.       *)

Abs(x) == IF x < 0 THEN -x ELSE x

\* Euclid's algorithm on a pair of naturals
Euclid[p \in Nat \X Nat] == IF p[2] = 0 THEN p[1] ELSE Euclid[<<p[2], p[1] % p[2]>>]

GCD(a, b) == Euclid[<<a, b>>]

Fractions == Int \X Int

LowestTerms[p \in Fractions] ==
    LET g == GCD(Abs(p[1]), Abs(p[2]))
        s == IF p[2] < 0 THEN -1 ELSE 1
    IN  <<s * (p[1] \div g), s * (p[2] \div g)>>

\* the rational n/d in lowest terms, d /= 0
Rat(n, d) == LowestTerms[<<n, d>>]

Zero == <<0, 1>>

FromInt(n) == <<n, 1>>

Product[p \in Fractions \X Fractions] ==
    LET g1 == GCD(Abs(p[1][1]), p[2][2])
        g2 == GCD(Abs(p[2][1]), p[1][2])
    IN  Rat((p[1][1] \div g1) * (p[2][1] \div g2), (p[1][2] \div g2) * (p[2][2] \div g1))

RatMul(a, b) == Product[<<a, b>>]

\* a / b, b /= 0
RatDiv(a, b) == Product[<<a, Rat(b[2], b[1])>>]

Addition[p \in Fractions \X Fractions] ==
    LET g == GCD(p[1][2], p[2][2])
        l == (p[1][2] \div g) * p[2][2]
    IN  Rat(p[1][1] * (l \div p[1][2]) + p[2][1] * (l \div p[2][2]), l)

RatAdd(a, b) == Addition[<<a, b>>]

Pow10[k \in Nat] == IF k = 0 THEN 1 ELSE 10 * Pow10[k - 1]

\* math.hypot on the integer grid: the integer r with r*r = dx*dx + dy*dy
Hypot(dx, dy) ==
    FromInt(CHOOSE r \in 0..(Abs(dx) + Abs(dy)) : r * r = dx * dx + dy * dy)

\* sum(xs) of a list of rationals, left to right from 0
Sum[xs \in Seq(Fractions)] ==
    IF xs = <<>> THEN Zero
    ELSE RatAdd(Sum[SubSeq(xs, 1, Len(xs) - 1)], xs[Len(xs)])

\* the digits of r/d after the decimal point, k of them, as an integer,
\* paired with the remainder that is left (0 <= r < d); p is <<r, d, k>>
Digits[p \in Nat \X Nat \X Nat] ==
    IF p[3] = 0 THEN <<0, p[1]>>
    ELSE LET first == (p[1] * 10) \div p[2]
             rest  == Digits[<<(p[1] * 10) % p[2], p[2], p[3] - 1>>]
         IN  <<first * Pow10[p[3] - 1] + rest[1], rest[2]>>

\* round(q, ndigits) for q >= 0: nearest multiple of 10^-ndigits, ties to even
Nearest10[p \in Fractions \X Nat] ==
    LET q     == p[1]
        whole == q[1] \div q[2]
        frac  == Digits[<<q[1] % q[2], q[2], p[2]>>]
        down  == whole * Pow10[p[2]] + frac[1]
        up    == IF 2 * frac[2] > q[2] THEN 1
                 ELSE IF 2 * frac[2] < q[2] THEN 0
                 ELSE down % 2
    IN  Rat(down + up, Pow10[p[2]])

Round(q, ndigits) == Nearest10[<<q, ndigits>>]

-----------------------------------------------------------------------------
(* Call results *)

Return(v) == [kind |-> "return", value |-> v]

Raise(e) == [kind |-> "raise", value |-> e]

\* Python None for a descriptor set, and a present descriptor set
None == [present |-> FALSE, rows |-> <<>>]

Some(rows) == [present |-> TRUE, rows |-> rows]

-----------------------------------------------------------------------------
(* calculate_matches: cv2.BFMatcher(cv2.NORM_HAMMING, crossCheck=True)       *)
(* A descriptor is a bit string, written as the natural number it encodes.  *)
(* A match is [queryIdx, trainIdx, distance] with 0-based indices.          *)

\* number of bit positions in which the descriptors a and b differ
RECURSIVE Hamming(_, _)
Hamming(a, b) ==
    IF a = 0 /\ b = 0 THEN 0
    ELSE (IF a % 2 = b % 2 THEN 0 ELSE 1) + Hamming(a \div 2, b \div 2)

\* position (1-based) of the row of `rows` nearest to d, the first one on a tie
Nearest(d, rows) ==
    CHOOSE t \in 1..Len(rows) :
        \A u \in 1..Len(rows) :
            \/ Hamming(d, rows[t]) < Hamming(d, rows[u])
            \/ Hamming(d, rows[t]) = Hamming(d, rows[u]) /\ t <= u

\* brute_force.match(descriptors_1, descriptors_2) with crossCheck: the
\* mutually nearest pairs, in query order; none when either set has no row
RECURSIVE BFMatch(_, _, _)
BFMatch(rows1, rows2, n) ==
    IF n = 0 \/ rows2 = <<>> THEN <<>>
    ELSE LET t    == Nearest(rows1[n], rows2)
             back == Nearest(rows2[t], rows1)
             rest == BFMatch(rows1, rows2, n - 1)
         IN  IF back = n
             THEN Append(rest, [queryIdx |-> n - 1, trainIdx |-> t - 1,
                                distance |-> Hamming(rows1[n], rows2[t])])
             ELSE rest

\* insert m into the distance-sorted list ms after every element that is
\* not farther than m (sorted() is stable)
RECURSIVE InsertByDistance(_, _)
InsertByDistance(ms, m) ==
    IF ms = <<>> THEN <<m>>
    ELSE IF ms[Len(ms)].distance <= m.distance THEN Append(ms, m)
    ELSE Append(InsertByDistance(SubSeq(ms, 1, Len(ms) - 1), m), ms[Len(ms)])

\* sorted(matches, key=lambda x: x.distance)
RECURSIVE SortedByDistance(_)
SortedByDistance(ms) ==
    IF ms = <<>> THEN <<>>
    ELSE InsertByDistance(SortedByDistance(SubSeq(ms, 1, Len(ms) - 1)), ms[Len(ms)])

\* faulty variant: only the first descriptor set is checked for None
MatchesChecksFirstOnly(descriptors_1, descriptors_2) ==
    IF ~descriptors_1.present
    THEN Raise("ValueError")
    ELSE Return(SortedByDistance(
             BFMatch(descriptors_1.rows, descriptors_2.rows, Len(descriptors_1.rows))))

calculate_matches(descriptors_1, descriptors_2) ==
    IF ~descriptors_1.present \/ ~descriptors_2.present
    THEN Raise("ValueError")
    ELSE Return(SortedByDistance(
             BFMatch(descriptors_1.rows, descriptors_2.rows, Len(descriptors_1.rows))))

-----------------------------------------------------------------------------
(* find_matching_coordinates.  A keypoint is [pt |-> <<x, y>>].             *)

\* seq[idx] of Python does not raise IndexError
PyInRange(seq, idx) == idx >= -Len(seq) /\ idx < Len(seq)

\* seq[idx] of Python: a negative idx counts from the end
PyGet(seq, idx) == IF idx >= 0 THEN seq[idx + 1] ELSE seq[Len(seq) + idx + 1]

\* one iteration of the for loop: coords is <<coordinates_1, coordinates_2>>
ResolveMatch(keypoints_1, keypoints_2, match, coords) ==
    IF ~PyInRange(keypoints_1, match.queryIdx) THEN coords
    ELSE IF ~PyInRange(keypoints_2, match.trainIdx) THEN coords
    ELSE <<Append(coords[1], PyGet(keypoints_1, match.queryIdx).pt),
           Append(coords[2], PyGet(keypoints_2, match.trainIdx).pt)>>

RECURSIVE find_matching_coordinates(_, _, _)
find_matching_coordinates(keypoints_1, keypoints_2, matches) ==
    IF matches = <<>> THEN << <<>>, <<>> >>
    ELSE ResolveMatch(keypoints_1, keypoints_2, matches[Len(matches)],
             find_matching_coordinates(keypoints_1, keypoints_2,
                                       SubSeq(matches, 1, Len(matches) - 1)))

-----------------------------------------------------------------------------
(* calculate_mean_distance *)

\* total_distance after the first n pairs of zip(coordinates_1, coordinates_2)
RECURSIVE TotalDistance(_, _, _)
TotalDistance(coordinates_1, coordinates_2, n) ==
    IF n = 0 THEN Zero
    ELSE RatAdd(TotalDistance(coordinates_1, coordinates_2, n - 1),
                Hypot(coordinates_1[n][1] - coordinates_2[n][1],
                      coordinates_1[n][2] - coordinates_2[n][2]))

\* faulty variant: the lengths are not compared, zip stops at the shorter list
MeanDistanceOverShorter(coordinates_1, coordinates_2) ==
    IF coordinates_1 = <<>> \/ coordinates_2 = <<>>
    THEN Zero
    ELSE RatDiv(TotalDistance(coordinates_1, coordinates_2,
                              IF Len(coordinates_1) < Len(coordinates_2)
                              THEN Len(coordinates_1) ELSE Len(coordinates_2)),
                FromInt(Len(coordinates_1)))

calculate_mean_distance(coordinates_1, coordinates_2) ==
    IF coordinates_1 = <<>> \/ coordinates_2 = <<>>
       \/ Len(coordinates_1) # Len(coordinates_2)
    THEN Zero
    ELSE RatDiv(TotalDistance(coordinates_1, coordinates_2, Len(coordinates_1)),
                FromInt(Len(coordinates_1)))

-----------------------------------------------------------------------------
(* calculate_speed_in_kmps *)

\* faulty variant: an elapsed time of 0 yields the speed 0
SpeedZeroWhenNoTime(feature_distance, GSD, time_difference) ==
    IF time_difference[1] = 0
    THEN Return(Zero)
    ELSE Return(RatDiv(RatDiv(RatMul(feature_distance, GSD), FromInt(CmPerKm)),
                       time_difference))

calculate_speed_in_kmps(feature_distance, GSD, time_difference) ==
    IF time_difference[1] = 0
    THEN Raise("ValueError")
    ELSE Return(RatDiv(RatDiv(RatMul(feature_distance, GSD), FromInt(CmPerKm)),
                       time_difference))

-----------------------------------------------------------------------------
(* Inputs of the direct calls *)

\* the sequences over S of length at most n
SeqsUpTo(S, n) == UNION {[1..k -> S] : k \in 0..n}

\* the GSD main passes to calculate_speed_in_kmps: 24451.525
MainGSD == Rat(24451525, 1000)

Displacements == {Zero, FromInt(5), FromInt(10), Rat(7, 2)}

GSDs == {FromInt(100000), FromInt(2000), MainGSD}

\* pixel coordinates; every two of them are an integer distance apart
Points == {<<0, 0>>, <<3, 0>>, <<0, 4>>, <<3, 4>>}

Descriptors == 0..3

DescriptorSets == {None} \cup {Some(rows) : rows \in SeqsUpTo(Descriptors, MaxDescriptors)}

\* n keypoints of the first image, and n of the second
KeypointsA(n) == [k \in 1..n |-> [pt |-> <<k, 0>>]]

KeypointsB(n) == [k \in 1..n |-> [pt |-> <<0, k>>]]

QueryIndices == {-(MaxKeypoints + 1), -1, 0, 1, MaxKeypoints}

TrainIndices == {-1, 0, MaxKeypoints}

MatchCandidates == [queryIdx : QueryIndices, trainIdx : TrainIndices, distance : {0}]

SpeedArgs ==
    [fn : {"calculate_speed_in_kmps"}, feature_distance : Displacements,
     GSD : GSDs, time_difference : {FromInt(t) : t \in 0..MaxElapsed}]

MatchesArgs ==
    [fn : {"calculate_matches"}, descriptors_1 : DescriptorSets,
     descriptors_2 : DescriptorSets]

CoordinatesArgs ==
    [fn : {"find_matching_coordinates"},
     keypoints_1 : {KeypointsA(n) : n \in {0, MaxKeypoints}},
     keypoints_2 : {KeypointsB(n) : n \in {0, MaxKeypoints}},
     matches : SeqsUpTo(MatchCandidates, MaxMatches)]

MeanDistanceArgs ==
    [fn : {"calculate_mean_distance"},
     coordinates_1 : SeqsUpTo(Points, MaxPairs),
     coordinates_2 : SeqsUpTo(Points, MaxPairs)]

Pending == [kind |-> "pending", value |-> <<>>]

-----------------------------------------------------------------------------
(* Direct calls of the pipeline functions *)

CallSpeed ==
    /\ args.fn = "calculate_speed_in_kmps"
    /\ ret.kind = "pending"
    /\ ret' = calculate_speed_in_kmps(args.feature_distance, args.GSD,
                                      args.time_difference)
    /\ UNCHANGED <<mainVars, args>>

CallMatches ==
    /\ args.fn = "calculate_matches"
    /\ ret.kind = "pending"
    /\ ret' = calculate_matches(args.descriptors_1, args.descriptors_2)
    /\ UNCHANGED <<mainVars, args>>

CallCoordinates ==
    /\ args.fn = "find_matching_coordinates"
    /\ ret.kind = "pending"
    /\ ret' = Return(find_matching_coordinates(args.keypoints_1, args.keypoints_2,
                                               args.matches))
    /\ UNCHANGED <<mainVars, args>>

CallMeanDistance ==
    /\ args.fn = "calculate_mean_distance"
    /\ ret.kind = "pending"
    /\ ret' = Return(calculate_mean_distance(args.coordinates_1, args.coordinates_2))
    /\ UNCHANGED <<mainVars, args>>

-----------------------------------------------------------------------------
(* main(): what the camera, the file system and OpenCV may hand back *)

\* f"image{i}.jpg"
ImageName(n) == <<"image", n, ".jpg">>

\* the EXIF datetime_original of a captured image: missing, or a time in seconds
ExifValues == {[ok |-> FALSE, time |-> 0], [ok |-> TRUE, time |-> 100],
               [ok |-> TRUE, time |-> 110]}

\* what orb.detectAndCompute may return for one image: no keypoint and no
\* descriptors, no keypoint and an empty descriptor array, or one keypoint
ImageFeatures ==
    {[keypoints |-> <<>>, descriptors |-> None],
     [keypoints |-> <<>>, descriptors |-> Some(<<>>)],
     [keypoints |-> <<[pt |-> <<0, 0>>]>>, descriptors |-> Some(<<1>>)],
     [keypoints |-> <<[pt |-> <<3, 4>>]>>, descriptors |-> Some(<<1>>)]}

\* results.txt: absent, empty, or holding one number written by some run
NoFile == [exists |-> FALSE, run |-> "none", text |-> <<>>]

EmptyFile == [exists |-> TRUE, run |-> "none", text |-> <<>>]

EarlierFile == [exists |-> TRUE, run |-> "earlier", text |-> <<Rat(765432, 100000)>>]

IdleCycle(before) ==
    [before |-> before, outcome |-> "running", time_difference |-> <<-1, 1>>,
     present |-> FALSE, coordinates |-> -1, distance |-> Zero]

-----------------------------------------------------------------------------
(* main(): the stages of one cycle *)

\* get_time: the parsed EXIF time, or the exception it re-raises
get_time(exif) == IF exif.ok THEN Return(exif.time) ELSE Raise("ValueError")

get_time_difference(exif_1, exif_2) ==
    IF get_time(exif_1).kind = "raise" THEN get_time(exif_1)
    ELSE IF get_time(exif_2).kind = "raise" THEN get_time(exif_2)
    ELSE Return(FromInt(Abs(get_time(exif_2).value - get_time(exif_1).value)))

\* convert_to_cv: cv2.imread returns None for an image it cannot read
convert_to_cv(readable_1, readable_2) ==
    IF ~readable_1 THEN Raise("ValueError")
    ELSE IF ~readable_2 THEN Raise("ValueError")
    ELSE Return(<<readable_1, readable_2>>)

\* faulty variant: the file is opened for writing, which empties it
TouchTruncates(file) == EmptyFile

\* data_file.touch(exist_ok=True)
Touch(file) == IF file.exists THEN file ELSE EmptyFile

\* faulty variant: the counter is not advanced
NextCounterStuck(n) == n

\* i += 1 after a capture
NextCounter(n) == n + 1

\* faulty variant: a failed cycle records the speed 0
ExceptClauseRecordsZero(seen) ==
    /\ speeds' = Append(speeds, Zero)
    /\ measured' = measured
    /\ cycle' = [seen EXCEPT !.outcome = "failed"]
    /\ pc' = "pacing"

\* the except clause of the loop: the error is printed, nothing else changes;
\* seen is the history record of the cycle so far
ExceptClause(seen) ==
    /\ speeds' = speeds
    /\ measured' = measured
    /\ cycle' = [seen EXCEPT !.outcome = "failed"]
    /\ pc' = "pacing"

\* faulty variant: a speed of 0 is not recorded
AppendSpeedUnlessZero(speed, seen) ==
    /\ speeds' = IF speed = Zero THEN speeds ELSE Append(speeds, speed)
    /\ measured' = IF speed = Zero THEN measured ELSE Append(measured, speed)
    /\ cycle' = [seen EXCEPT !.outcome = "ok"]
    /\ pc' = "pacing"

\* speeds.append(speed) and the three prints that follow it
AppendSpeed(speed, seen) ==
    /\ speeds' = Append(speeds, speed)
    /\ measured' = Append(measured, speed)
    /\ cycle' = [seen EXCEPT !.outcome = "ok"]
    /\ pc' = "pacing"

\* lines 254-266 once both images are loaded and their features known;
\* seen is the history record of the cycle so far
MatchAndMeasure(time_difference, features_1, features_2, seen) ==
    \E matches \in {calculate_matches(features_1.descriptors, features_2.descriptors)} :
      IF matches.kind = "raise"
      THEN ExceptClause(seen)
      ELSE \E coords \in {find_matching_coordinates(features_1.keypoints,
                              features_2.keypoints, matches.value)} :
           \E distance \in {calculate_mean_distance(coords[1], coords[2])} :
           \E speed \in {calculate_speed_in_kmps(distance, MainGSD, time_difference)} :
           \E resolved \in {[seen EXCEPT !.present = TRUE,
                                         !.coordinates = Len(coords[1]),
                                         !.distance = distance]} :
             IF speed.kind = "raise"
             THEN ExceptClause(resolved)
             ELSE AppendSpeed(speed.value, resolved)

\* faulty variant: the sum is divided by one more than the number of speeds
AverageCountsOneMore(xs) ==
    IF xs # <<>> THEN RatDiv(Sum[xs], FromInt(Len(xs) + 1)) ELSE Zero

\* lines 279-282: the mean of the speeds, 0 when there is none
Average(xs) == IF xs # <<>> THEN RatDiv(Sum[xs], FromInt(Len(xs))) ELSE Zero

\* lines 286-287: open("w") and write(str(round(average_speed, 5)))
Overwrite(value) ==
    [exists |-> TRUE, run |-> "this", text |-> <<Round(value, RoundDigits)>>]

-----------------------------------------------------------------------------
(* main(): the steps *)

\* lines 220-230: the clock is read twice, results.txt is touched, i = 1
Startup ==
    /\ pc = "start"
    /\ now_time' = clock
    /\ results_file' = Touch(results_file)
    /\ i' = 1
    /\ speeds' = <<>>
    /\ pc' = "check"
    /\ UNCHANGED <<clock, average_speed, requested, captured, failed, measured,
                   cycle, writes, args, ret>>

\* line 233: the while condition
Check ==
    /\ pc = "check"
    /\ pc' = IF now_time < start_time + RunSeconds THEN "capture1" ELSE "finalize"
    /\ UNCHANGED <<clock, now_time, i, speeds, average_speed, results_file,
                   requested, captured, failed, measured, cycle, writes, args, ret>>

\* cam.take_photo(f"image{i}.jpg") and i += 1, followed by sleep(9) after the
\* first capture; the camera decides whether the capture succeeds
TakePhoto(then) ==
    \E ok \in BOOLEAN :
        /\ ok => i <= MaxImages
        /\ requested' = Append(requested, [name  |-> ImageName(i),
                                           fresh |-> ImageName(i) \notin captured,
                                           again |-> ImageName(i) \in failed,
                                           ok    |-> ok])
        /\ IF ok
           THEN /\ i' = NextCounter(i)
                /\ captured' = captured \cup {ImageName(i)}
                /\ failed' = failed \ {ImageName(i)}
                /\ pc' = then
                /\ UNCHANGED <<speeds, measured, cycle>>
           ELSE /\ ExceptClause(cycle)
                /\ failed' = failed \cup {ImageName(i)}
                /\ UNCHANGED <<i, captured>>
        /\ clock' = IF ok /\ then = "capture2" THEN clock + InterCapturePause ELSE clock
        /\ UNCHANGED <<now_time, average_speed, results_file, writes, args, ret>>

\* lines 236-238: the first capture, then sleep(9)
Capture1 ==
    /\ pc = "capture1"
    /\ TakePhoto("capture2")

\* lines 241-242: the second capture
Capture2 ==
    /\ pc = "capture2"
    /\ TakePhoto("measure")

\* lines 245-271: the pipeline on the two images, up to speeds.append
Measure ==
    /\ pc = "measure"
    /\ \E exif_1 \in ExifValues, exif_2 \in ExifValues :
         \E elapsed \in {get_time_difference(exif_1, exif_2)} :
           IF elapsed.kind = "raise"
           THEN ExceptClause(cycle)
           ELSE \E seen \in {[cycle EXCEPT !.time_difference = elapsed.value]} :
                \E readable_1 \in BOOLEAN, readable_2 \in BOOLEAN :
                  IF convert_to_cv(readable_1, readable_2).kind = "raise"
                  THEN ExceptClause(seen)
                  ELSE \/ ExceptClause(seen)
                       \/ \E features_1 \in ImageFeatures, features_2 \in ImageFeatures :
                            MatchAndMeasure(elapsed.value, features_1, features_2, seen)
    /\ UNCHANGED <<clock, now_time, i, average_speed, results_file, requested,
                   captured, failed, writes, args, ret>>

\* faulty variant: the finally clause does not sleep
PacingWithoutSleep ==
    /\ pc = "pacing"
    /\ clock' = clock
    /\ now_time' = clock'
    /\ pc' = "check"
    /\ cycle' = IdleCycle(speeds)
    /\ requested' = <<>>
    /\ UNCHANGED <<i, speeds, average_speed, results_file, captured, failed,
                   measured, writes, args, ret>>

\* lines 274-276, the finally clause: sleep(1) and now_time = datetime.now()
Pacing ==
    /\ pc = "pacing"
    /\ clock' = clock + PacingDelay
    /\ now_time' = clock'
    /\ pc' = "check"
    /\ cycle' = IdleCycle(speeds)
    /\ requested' = <<>>
    /\ UNCHANGED <<i, speeds, average_speed, results_file, captured, failed,
                   measured, writes, args, ret>>

\* lines 279-282
Finalize ==
    /\ pc = "finalize"
    /\ average_speed' = Average(speeds)
    /\ pc' = "write"
    /\ UNCHANGED <<clock, now_time, i, speeds, results_file, requested, captured,
                   failed, measured, cycle, writes, args, ret>>

\* lines 285-291: the file is opened for writing (which empties it) and the
\* rounded average written; either step may fail, which is only printed
WriteResult ==
    /\ pc = "write"
    /\ \/ /\ results_file' = Overwrite(average_speed)
          /\ writes' = writes + 1
       \/ /\ results_file' = EmptyFile
          /\ writes' = writes + 1
       \/ UNCHANGED <<results_file, writes>>
    /\ pc' = "done"
    /\ UNCHANGED <<clock, now_time, i, speeds, average_speed, requested, captured,
                   failed, measured, cycle, args, ret>>

-----------------------------------------------------------------------------
(* Specifications *)

\* the locals of main and the history before the first statement
InitLocals ==
    /\ clock = start_time
    /\ now_time = start_time
    /\ i = 1
    /\ speeds = <<>>
    /\ average_speed = Zero
    /\ requested = <<>>
    /\ captured = {}
    /\ failed = {}
    /\ measured = <<>>
    /\ cycle = IdleCycle(<<>>)
    /\ writes = 0
    /\ ret = Pending

\* main() is run on a file system where results.txt is absent or left by an
\* earlier run
InitMain ==
    /\ pc = "start"
    /\ results_file \in {NoFile, EarlierFile}
    /\ args = [fn |-> "main"]
    /\ InitLocals

\* the module is imported and one pipeline function is called
InitCall ==
    /\ pc = "imported"
    /\ results_file = NoFile
    /\ args \in SpeedArgs \cup MatchesArgs \cup CoordinatesArgs \cup MeanDistanceArgs
    /\ InitLocals

Init == InitMain \/ InitCall

Next ==
    \/ Startup
    \/ Check
    \/ Capture1
    \/ Capture2
    \/ Measure
    \/ Pacing
    \/ Finalize
    \/ WriteResult
    \/ CallSpeed
    \/ CallMatches
    \/ CallCoordinates
    \/ CallMeanDistance

Spec == Init /\ [][Next]_vars

NextMain ==
    \/ Startup
    \/ Check
    \/ Capture1
    \/ Capture2
    \/ Measure
    \/ Pacing
    \/ Finalize
    \/ WriteResult

\* a run of main(), which is sequential code and always takes its next step
LiveSpec == InitMain /\ [][NextMain]_vars /\ WF_vars(NextMain)

-----------------------------------------------------------------------------
(* Notions the claims are stated in *)

\* the stages of a cycle, between the deadline check and the finally clause
InCycle == {"capture1", "capture2", "measure"}

\* the total of a list of rationals, from its head
RECURSIVE Total(_)
Total(xs) == IF xs = <<>> THEN Zero ELSE RatAdd(Head(xs), Total(Tail(xs)))

\* the Euclidean distance of two grid points
Distance(p, q) ==
    CHOOSE r \in 0..(Abs(p[1] - q[1]) + Abs(p[2] - q[2])) :
        r * r = (p[1] - q[1]) * (p[1] - q[1]) + (p[2] - q[2]) * (p[2] - q[2])

RECURSIVE DistanceTotal(_, _)
DistanceTotal(ps, qs) ==
    IF ps = <<>> THEN 0
    ELSE Distance(Head(ps), Head(qs)) + DistanceTotal(Tail(ps), Tail(qs))

\* xs listed in the order perm
Permuted(xs, perm) == [k \in 1..Len(xs) |-> xs[perm[k]]]

\* v is a multiple of 10^-RoundDigits at most half such a unit away from q
NearestDecimal(v, q) ==
    LET diff == RatAdd(v, <<-q[1], q[2]>>)
    IN  /\ Pow10[RoundDigits] % v[2] = 0
        /\ Abs(diff[1]) <= diff[2] \div (2 * Pow10[RoundDigits])

Called(fn) == args.fn = fn /\ ret.kind # "pending"

\* index idx is one of the positions 0 .. Len(seq)-1 of seq
ValidIndex(seq, idx) == idx >= 0 /\ idx < Len(seq)

-----------------------------------------------------------------------------
(* C1: a cycle in which any stage fails leaves the speeds collection as it  *)
(* was before the cycle, the loop goes on to its finally clause and to the  *)
(* next deadline check; main ends only after the write of the result,      *)
(* never from a stage of a cycle.                                           *)
C1_FailedCycleIsAbsorbed ==
    /\ [][pc' = "done" /\ pc # "done" => pc = "write"]_vars
    /\ [](cycle.outcome = "failed" => pc = "pacing" /\ speeds = cycle.before)
    /\ [][cycle'.outcome = "failed" /\ cycle.outcome # "failed"
            => pc' = "pacing" /\ speeds' = speeds]_vars
    /\ [][pc = "pacing" /\ pc' # "pacing" => pc' = "check"]_vars

\* the last stage fails in a cycle that follows a successful one
C1_Witness ==
    /\ pc = "pacing"
    /\ cycle.outcome = "failed"
    /\ cycle.present
    /\ cycle.time_difference = Zero
    /\ cycle.before # <<>>

(* C2: once the loop has ended the session result is the arithmetic mean of *)
(* exactly the speeds computed by the successful cycles, and 0 when there   *)
(* is none; speeds 1, 2, 3 give 2.                                          *)
C2_ResultIsMeanOfMeasured ==
    /\ pc \in {"write", "done"} =>
         IF measured = <<>> THEN average_speed = Zero
         ELSE RatMul(average_speed, FromInt(Len(measured))) = Total(measured)
    /\ Average(<<FromInt(1), FromInt(2), FromInt(3)>>) = FromInt(2)

\* two successful cycles with different speeds, and the run is over
C2_Witness ==
    /\ pc = "done"
    /\ Len(measured) = 2
    /\ measured[1] # measured[2]

(* C3: the loop ends on the clock alone.  A run of main reaches Done; the   *)
(* loop is left only by a deadline check that finds the window elapsed, and *)
(* such a check starts no cycle; a cycle that has started runs on to the    *)
(* finally clause; and the deadline is checked again only after the pacing  *)
(* delay has elapsed and now_time has been read.                            *)
C3_TimeBoundedLoop ==
    /\ <>(pc = "done")
    /\ [][pc' = "finalize" /\ pc # "finalize"
            => pc = "check" /\ now_time >= start_time + RunSeconds]_vars
    /\ [][pc = "check" /\ now_time >= start_time + RunSeconds
            => (pc' = "check" \/ pc' = "finalize")]_vars
    /\ [][(pc \in InCycle) => (pc' \in InCycle \/ pc' = "pacing")]_vars
    /\ [][pc' = "check" /\ pc # "check"
            => \/ pc = "start"
               \/ /\ pc = "pacing"
                  /\ clock' = clock + PacingDelay
                  /\ now_time' = clock']_vars

\* a cycle started just before the deadline is still running after it
C3_Witness == pc = "measure" /\ clock > start_time + RunSeconds

(* C4: calculate_speed_in_kmps raises whenever the elapsed time is 0 and    *)
(* otherwise returns (displacement * GSD / 100000) / elapsed, which is 1    *)
(* for displacement 10, GSD 100000, elapsed 10; in the loop a cycle whose   *)
(* captures carry the same timestamp appends nothing.                       *)
C4_SpeedOrError ==
    /\ Called("calculate_speed_in_kmps") =>
         IF args.time_difference = Zero THEN ret.kind = "raise"
         ELSE /\ ret.kind = "return"
              /\ RatMul(RatMul(ret.value, args.time_difference), FromInt(CmPerKm))
                   = RatMul(args.feature_distance, args.GSD)
              /\ (/\ args.feature_distance = FromInt(10)
                  /\ args.GSD = FromInt(100000)
                  /\ args.time_difference = FromInt(10)) => ret.value = FromInt(1)
    /\ pc = "pacing" /\ cycle.time_difference = Zero =>
         cycle.outcome = "failed" /\ speeds = cycle.before

\* a non-zero displacement over an elapsed time of 0
C4_Witness ==
    /\ Called("calculate_speed_in_kmps")
    /\ args.time_difference = Zero
    /\ args.feature_distance # Zero
    /\ ret.kind = "raise"

C6_OnlyValidIndicesResolve ==
    Called("find_matching_coordinates") =>
      LET Valid(m) == /\ ValidIndex(args.keypoints_1, m.queryIdx)
                      /\ ValidIndex(args.keypoints_2, m.trainIdx)
          kept == SelectSeq(args.matches, Valid)
      IN  /\ Len(ret.value[1]) = Len(ret.value[2])
          /\ ret.value[1] = [k \in 1..Len(kept) |->
                               args.keypoints_1[kept[k].queryIdx + 1].pt]
          /\ ret.value[2] = [k \in 1..Len(kept) |->
                               args.keypoints_2[kept[k].trainIdx + 1].pt]

C8_TouchedThenWrittenOnce ==
    /\ [][pc = "start" /\ pc' # "start"
            => results_file' = IF results_file.exists THEN results_file
                               ELSE EmptyFile]_vars
    /\ [](pc \notin {"start", "imported"} => results_file.exists)
    /\ [][(pc \notin {"start", "write"}) => results_file' = results_file]_vars
    /\ [](writes <= 1 /\ (writes = 1 => pc = "done"))
    /\ [](results_file.run = "this" =>
            /\ pc = "done"
            /\ Len(results_file.text) = 1
            /\ NearestDecimal(results_file.text[1], average_speed))

\* the content of an earlier run is still there when the loop has ended
C8_Witness ==
    /\ pc = "write"
    /\ results_file = EarlierFile
    /\ measured # <<>>

(* C8, as claimed: from startup until finalization results.txt holds no     *)
(* content of an earlier run.                                               *)
C8_TruncatedAtStartup ==
    pc \in InCycle \cup {"check", "pacing", "finalize", "write"}
      => results_file.run # "earlier"

(* C9: a cycle in which the descriptor sets are present and the timestamps  *)
(* differ but no coordinate pair is resolved is a successful cycle: its     *)
(* mean displacement is 0 and the speed 0 is appended; the speeds           *)
(* collection grows by one element in a successful cycle and by none in a   *)
(* failed one.                                                              *)
C9_NoMatchCountsAsZeroSpeed ==
    /\ speeds = measured
    /\ pc = "pacing" =>
         /\ cycle.present /\ cycle.coordinates = 0 /\ cycle.time_difference # Zero
              => /\ cycle.outcome = "ok"
                 /\ cycle.distance = Zero
                 /\ speeds = Append(cycle.before, Zero)
         /\ cycle.outcome = "ok"
              => /\ Len(speeds) = Len(cycle.before) + 1
                 /\ SubSeq(speeds, 1, Len(cycle.before)) = cycle.before
         /\ cycle.outcome = "failed" => speeds = cycle.before

\* the matcher returned no match in a cycle that follows a non-zero speed
C9_Witness ==
    /\ pc = "pacing"
    /\ cycle.outcome = "ok"
    /\ cycle.coordinates = 0
    /\ Len(cycle.before) = 1
    /\ cycle.before[1] # Zero

(* C10: no filename is requested that an earlier capture succeeded with,    *)
(* the two captures of a cycle use distinct filenames, and the image        *)
(* counter advances by one on a successful capture and stays on a failed    *)
(* one, so that only the filename of a failed capture is requested again.   *)
C10_FreshFilenames ==
    /\ [](\A k \in 1..Len(requested) : requested[k].fresh)
    /\ [](Len(requested) = 2 => requested[1].name # requested[2].name)
    /\ [](captured \cap failed = {})
    /\ [][Len(requested') > Len(requested)
            => i' = IF requested'[Len(requested')].ok THEN i + 1 ELSE i]_vars
    /\ [][Len(requested') <= Len(requested) /\ pc # "start" => i' = i]_vars

\* a filename whose capture failed is requested again and the capture succeeds
C10_Witness ==
    /\ Len(requested) = 2
    /\ requested[1].again
    /\ requested[1].ok
    /\ requested[2].ok

====
